---- MODULE Spec2Model ----
(***************************************************************************)
(* Model of the admission-control layer (rate_limiter.py), the /analyze    *)
(* route (app.py) and the inference wrapper (bedrock_client.py).           *)
(*                                                                         *)
(* Time is counted in ticks of 1/Res second, so that time.time() can       *)
(* return instants that are not whole seconds.  Requests are POSTs to      *)
(* /analyze: their body is declared JSON or not, and is an object (with a  *)
(* "thought" that is a string, a list or a number), another JSON value     *)
(* (one Python takes for false, as [] and null, or one it takes for true,  *)
(* as a non-empty array), or no JSON at all.                               *)
(* A pool of worker threads serves the requests; every access to the       *)
(* ledger map happens between an acquire and a release of the one lock.    *)
(* A step of a worker is one access to shared state (the clock, the lock,  *)
(* the ledgers, the backend) together with the local computation around    *)
(* it.  The session counters of BedrockClient, which feed only its log     *)
(* lines and get_session_stats, are left out.                              *)
(***************************************************************************)
EXTENDS Integers, Sequences, FiniteSets, TLC

(* ---------------- bounds of the model ---------------- *)
Res == 2                     \* clock ticks per second
requests_per_minute == 2     \* RateLimiter(requests_per_minute=...)
tokens_per_hour == 2         \* RateLimiter(tokens_per_hour=...)
max_input_length == 2        \* RateLimiter(max_input_length=...)
MaxRequests == 3             \* requests served in one run

(* ---------------- program constants ---------------- *)
MinuteWindow == 60           \* seconds, minute_ago = now - 60
HourWindow == 3600           \* seconds, hour_ago = now - 3600

Workers == {1, 2}            \* threads of the server's pool
NoWorker == 0
Clients == {"a", ""}         \* client addresses ("": X-Forwarded-For ", 10.0.0.1")

\* Instants (in ticks) at which the clock is read: 0 s, 0.5 s (with Res = 2),
\* 60 s and 61 s around the minute window, 3600 s for the hour window.
MinuteInstants == {0, 1, MinuteWindow * Res, (MinuteWindow + 1) * Res}
HourInstants == {0, 1, HourWindow * Res}
CoarseInstants == {0, (MinuteWindow + 1) * Res}
\* 0 s, one tick short of 60 s, and 61 s.
RetryInstants == {0, MinuteWindow * Res - 1, (MinuteWindow + 1) * Res}

(* ---------------- sequences ---------------- *)
RECURSIVE SelectTs(_, _)
\* [ts for ts in s if ts > bound]
SelectTs(s, bound) ==
    IF s = <<>> THEN <<>>
    ELSE IF Head(s) > bound THEN <<Head(s)>> \o SelectTs(Tail(s), bound)
         ELSE SelectTs(Tail(s), bound)

RECURSIVE SelectCharges(_, _)
\* [(ts, tokens) for ts, tokens in s if ts > bound]
SelectCharges(s, bound) ==
    IF s = <<>> THEN <<>>
    ELSE IF Head(s)[1] > bound THEN <<Head(s)>> \o SelectCharges(Tail(s), bound)
         ELSE SelectCharges(Tail(s), bound)

RECURSIVE SumTokens(_)
\* sum(tokens for _, tokens in s)
SumTokens(s) == IF s = <<>> THEN 0 ELSE Head(s)[2] + SumTokens(Tail(s))

RECURSIVE MinOf(_)
\* min(s) of a non-empty list
MinOf(s) ==
    IF Len(s) = 1 THEN s[1]
    ELSE LET m == MinOf(Tail(s)) IN IF Head(s) < m THEN Head(s) ELSE m

\* int(x) of the rational x = num / Res: truncation towards zero
IntOfTicks(num) == IF num >= 0 THEN num \div Res ELSE -((-num) \div Res)

(* ---------------- UserUsage and RateLimiter ---------------- *)
UserUsage == [request_timestamps |-> <<>>, token_usage |-> <<>>,
              total_requests |-> 0, total_tokens |-> 0]

\* self._usage[client_ip] of the defaultdict: the entry is created when missing
GetOrCreate(u, c) == IF c \in DOMAIN u THEN u ELSE u @@ (c :> UserUsage)

\* mutant: the request timestamps are never pruned
Cleanup_KeepsRequests(usage, t) ==
    [usage EXCEPT !.token_usage = SelectCharges(usage.token_usage, t - HourWindow * Res)]

\* mutant: a charge exactly 3600 s old is kept (ts >= hour_ago)
Cleanup_KeepsHourOld(usage, t) ==
    [usage EXCEPT
       !.request_timestamps = SelectTs(usage.request_timestamps, t - MinuteWindow * Res),
       !.token_usage = SelectCharges(usage.token_usage, t - HourWindow * Res - 1)]

\* mutant: pruning recomputes the lifetime count from the pruned list
Cleanup_ResetsTotals(usage, t) ==
    [usage EXCEPT
       !.request_timestamps = SelectTs(usage.request_timestamps, t - MinuteWindow * Res),
       !.token_usage = SelectCharges(usage.token_usage, t - HourWindow * Res),
       !.total_requests = Len(SelectTs(usage.request_timestamps, t - MinuteWindow * Res))]

\* mutant: the charges are pruned by the minute window (now - 60)
Cleanup_HourAsMinute(usage, t) ==
    [usage EXCEPT
       !.request_timestamps = SelectTs(usage.request_timestamps, t - MinuteWindow * Res),
       !.token_usage = SelectCharges(usage.token_usage, t - MinuteWindow * Res)]

\* mutant: the minute window is computed as the hour window is (now - 3600)
Cleanup_MinuteAsHour(usage, t) ==
    [usage EXCEPT
       !.request_timestamps = SelectTs(usage.request_timestamps, t - HourWindow * Res),
       !.token_usage = SelectCharges(usage.token_usage, t - HourWindow * Res)]

\* mutant: the minute window is one second short (now - 59)
Cleanup_ShortMinute(usage, t) ==
    [usage EXCEPT
       !.request_timestamps =
          SelectTs(usage.request_timestamps, t - (MinuteWindow - 1) * Res),
       !.token_usage = SelectCharges(usage.token_usage, t - HourWindow * Res)]

_cleanup_old_entries(usage, t) ==
    LET minute_ago == t - MinuteWindow * Res
        hour_ago == t - HourWindow * Res
    IN [usage EXCEPT
          !.request_timestamps = SelectTs(usage.request_timestamps, minute_ago),
          !.token_usage = SelectCharges(usage.token_usage, hour_ago)]

\* mutant: the remaining time is rounded up (math.ceil for int)
WaitTime_Ceil(t, oldest) == -((-(MinuteWindow * Res - (t - oldest))) \div Res) + 1

\* wait_time = int(60 - (now - oldest)) + 1
WaitTime(t, oldest) == IntOfTicks(MinuteWindow * Res - (t - oldest)) + 1

\* mutant: the rate rule trips only above the limit (> for >=)
Verdict_RateAbove(usage) ==
    [rate |-> Len(usage.request_timestamps) > requests_per_minute,
     token |-> SumTokens(usage.token_usage) >= tokens_per_hour]

\* The two rules of check_request_limit on the cleaned ledger.
Verdict(usage) ==
    [rate |-> Len(usage.request_timestamps) >= requests_per_minute,
     token |-> SumTokens(usage.token_usage) >= tokens_per_hour]

\* mutant: the token rule is looked at first
CheckTokenFirst(usage, t) ==
    LET cleaned == _cleanup_old_entries(usage, t)
        v == Verdict(cleaned)
    IN IF v.token
       THEN [allowed |-> FALSE, reason |-> "token", wait |-> 0, usage |-> cleaned]
       ELSE IF v.rate
            THEN [allowed |-> FALSE, reason |-> "rate",
                  wait |-> WaitTime(t, MinOf(cleaned.request_timestamps)),
                  usage |-> cleaned]
            ELSE [allowed |-> TRUE, reason |-> "none", wait |-> 0, usage |-> cleaned]

\* check_request_limit under the lock: the pruned ledger and the verdict
\* (allowed, reason, wait_time).
check_request_limit(usage, t) ==
    LET cleaned == _cleanup_old_entries(usage, t)
        v == Verdict(cleaned)
    IN IF v.rate
       THEN [allowed |-> FALSE, reason |-> "rate",
             wait |-> WaitTime(t, MinOf(cleaned.request_timestamps)),
             usage |-> cleaned]
       ELSE IF v.token
            THEN [allowed |-> FALSE, reason |-> "token", wait |-> 0, usage |-> cleaned]
            ELSE [allowed |-> TRUE, reason |-> "none", wait |-> 0, usage |-> cleaned]

\* mutant: the length of the text is not looked at
CheckLength_Never(text) == TRUE

\* mutant: text of exactly the limit is refused (>= for >)
CheckLength_AtLimit(text) == ~(Len(text) >= max_input_length)

check_input_length(text) == ~(Len(text) > max_input_length)

\* mutant: the timestamp is put at the front of the list (insert(0, now))
Record_Prepend(usage, t) ==
    [usage EXCEPT !.request_timestamps = <<t>> \o @,
                  !.total_requests = @ + 1]

\* mutant: the timestamp is appended and the lifetime count is left alone
Record_NoCount(usage, t) ==
    [usage EXCEPT !.request_timestamps = Append(@, t)]

\* mutant: the request is not recorded
Record_Nothing(usage, t) == usage

record_request(usage, t) ==
    [usage EXCEPT !.request_timestamps = Append(@, t),
                  !.total_requests = @ + 1]

record_tokens(usage, t, tokens) ==
    [usage EXCEPT !.token_usage = Append(@, <<t, tokens>>),
                  !.total_tokens = @ + tokens]


\* tokens_this_hour / requests_this_minute as get_usage_stats reports them
get_usage_stats(usage, t) ==
    LET cleaned == _cleanup_old_entries(usage, t)
    IN [requests_this_minute |-> Len(cleaned.request_timestamps),
        tokens_this_hour |-> SumTokens(cleaned.token_usage),
        total_requests |-> cleaned.total_requests,
        total_tokens |-> cleaned.total_tokens]

RECURSIVE SumOver(_, _)
\* sum(u.<field> for u in self._usage.values())
SumOver(u, f) ==
    IF DOMAIN u = {} THEN 0
    ELSE LET c == CHOOSE x \in DOMAIN u : TRUE
         IN u[c][f] + SumOver([x \in DOMAIN u \ {c} |-> u[x]], f)

(* ---------------- request texts ---------------- *)
RECURSIVE Xs(_)
Xs(n) == IF n = 0 THEN <<>> ELSE <<"x">> \o Xs(n - 1)

\* The "thought" of a request body: characters are " " (white space) or "x".
Thoughts == {<<" ">>, Xs(max_input_length), Xs(max_input_length + 1)}

\* The body of a request: whether request.is_json holds (the Content-Type),
\* what the body is, and its "thought" as a sequence (the characters of a
\* string, the elements of a list; none: the empty sequence).  The kinds:
\*   "text"       an object whose "thought" is a string, or that has none
\*   "list"       an object whose "thought" is a list or an object (it has
\*                a len() and no strip())
\*   "number"     an object whose "thought" is a number, a boolean or null
\*                (it has no len())
\*   "empty"      a JSON value that is not an object and that `or` takes
\*                for false: [], null, 0, false, ""
\*   "array"      a JSON value that is not an object and that `or` takes
\*                for true: a non-empty array or string, a number but 0, true
\*   "malformed"  not JSON: get_json(silent=True) gives None, request.json
\*                raises BadRequest
Body(j, k, text) == [is_json |-> j, kind |-> k, thought |-> text]

\* data = request.get_json(silent=True) or {}: the kinds of body for which
\* data is an object (the body itself, or the {} that stands in for it).
DataIsObject(k) == k \in {"text", "list", "number", "empty", "malformed"}

\* thought = data.get("thought", ""): the thought that the decorator hands
\* to check_input_length; the {} standing in for a body has none.
CheckedThought(k, text) == IF k \in {"empty", "malformed"} THEN <<>> ELSE text

\* The kinds of thought that len() takes.
HasLen(k) == k \in {"text", "list", "empty", "malformed"}

\* Bodies as the API has them: JSON objects with the thoughts T.
JsonBodies(T) == {Body(TRUE, "text", text) : text \in T}

\* Bodies the API does not have: an over-length thought in a body not
\* declared JSON, and one body or two of every kind but "text".
OtherBodies ==
    {Body(FALSE, "text", Xs(max_input_length + 1)),
     Body(TRUE, "list", Xs(max_input_length)),
     Body(TRUE, "list", Xs(max_input_length + 1)),
     Body(TRUE, "number", <<>>),
     Body(TRUE, "empty", <<>>),
     Body(TRUE, "array", <<>>),
     Body(TRUE, "malformed", <<>>)}

Bodies == JsonBodies(Thoughts) \cup OtherBodies

RECURSIVE LStrip(_)
LStrip(s) == IF s # <<>> /\ Head(s) = " " THEN LStrip(Tail(s)) ELSE s

RECURSIVE RStrip(_)
RStrip(s) ==
    IF s # <<>> /\ s[Len(s)] = " " THEN RStrip(SubSeq(s, 1, Len(s) - 1)) ELSE s

\* str.strip()
Strip(s) == RStrip(LStrip(s))

(* ---------------- BedrockClient ---------------- *)
\* The generated text is a sequence of pieces: the braces, commentary ("x"),
\* and the members a JSON object may hold.
ActionMembers == {"action:do it now", "action:bogus", "action:7"}
Members == ActionMembers \cup {"fields"}

\* str.find / str.rfind, 0-based, -1 when absent
Find(s, ch) ==
    IF \E i \in 1..Len(s) : s[i] = ch
    THEN (CHOOSE i \in 1..Len(s) : s[i] = ch /\ \A j \in 1..(i - 1) : s[j] # ch) - 1
    ELSE -1

RFind(s, ch) ==
    IF \E i \in 1..Len(s) : s[i] = ch
    THEN (CHOOSE i \in 1..Len(s) : s[i] = ch /\ \A j \in (i + 1)..Len(s) : s[j] # ch) - 1
    ELSE -1

\* s[start:end] for 0 <= start <= end
Slice(s, start, end) == SubSeq(s, start + 1, end)

\* json.loads on a candidate that begins with "{": it decodes when the
\* candidate is one object whose content is members only.
JsonDecodes(js) ==
    /\ Len(js) >= 2
    /\ js[1] = "{"
    /\ js[Len(js)] = "}"
    /\ \A i \in 2..(Len(js) - 1) : js[i] \in Members

\* result.get("action", "LET_IT_GO"): the last "action" member wins
RawAction(js) ==
    IF \E i \in 1..Len(js) : js[i] \in ActionMembers
    THEN js[CHOOSE i \in 1..Len(js) :
               js[i] \in ActionMembers /\ \A j \in (i + 1)..Len(js) : js[j] \notin ActionMembers]
    ELSE "action:LET_IT_GO"

HasFields(js) == \E i \in 1..Len(js) : js[i] = "fields"

\* .upper().replace(" ", "_") of the action's value; a number has no upper()
UpperUnderscore(raw) ==
    CASE raw = "action:do it now" -> "DO_IT_NOW"
      [] raw = "action:LET_IT_GO" -> "LET_IT_GO"
      [] raw = "action:bogus" -> "BOGUS"

ACTION_MAP ==
    [DO_IT_NOW |-> [emoji |-> "check", title |-> "Do it now"],
     SCHEDULE_IT |-> [emoji |-> "clock", title |-> "Schedule it"],
     LET_IT_GO |-> [emoji |-> "bin", title |-> "Let it go"]]

\* str.lower() of a canonical action
Lower(action) ==
    CASE action = "DO_IT_NOW" -> "do_it_now"
      [] action = "SCHEDULE_IT" -> "schedule_it"
      [] action = "LET_IT_GO" -> "let_it_go"

_fallback_response ==
    [action |-> "let_it_go", emoji |-> "bin", title |-> "Let it go",
     summary |-> "Having trouble analyzing this thought.",
     reason |-> "When in doubt, release it.",
     next_step |-> "Take a breath and try again.",
     tokens_used |-> 0]

\* _parse_response: raised, or the parsed dict
_parse_response(result_text) ==
    LET start == Find(result_text, "{")
        end == RFind(result_text, "}") + 1
    IN IF start = -1 \/ end <= start
       THEN [raised |-> TRUE]
       ELSE LET json_str == Slice(result_text, start, end)
            IN IF ~JsonDecodes(json_str) \/ RawAction(json_str) = "action:7"
               THEN [raised |-> TRUE]
               ELSE LET upper == UpperUnderscore(RawAction(json_str))
                        action == IF upper \in DOMAIN ACTION_MAP THEN upper
                                  ELSE "LET_IT_GO"
                    IN [raised |-> FALSE,
                        value |->
                          [action |-> Lower(action),
                           emoji |-> ACTION_MAP[action].emoji,
                           title |-> ACTION_MAP[action].title,
                           summary |-> IF HasFields(json_str) THEN "s" ELSE "",
                           reason |-> IF HasFields(json_str) THEN "r" ELSE "",
                           next_step |-> IF HasFields(json_str) THEN "n" ELSE ""]]

\* What the inference backend answers to one converse() call.
ReplyTexts ==
    {<<"x">>, <<"}">>, <<"{">>, <<"}", "{">>, <<"{", "x", "}">>, <<"{", "}">>,
     <<"x", "{", "action:do it now", "fields", "}", "x">>,
     <<"{", "action:bogus", "}">>, <<"{", "action:7", "}">>}

Replies ==
    {[kind |-> k, text |-> <<>>, has_usage |-> FALSE, inputTokens |-> 0,
      outputTokens |-> 0] : k \in {"ClientError", "Exception"}}
    \cup [kind : {"ok"}, text : ReplyTexts, has_usage : BOOLEAN,
          inputTokens : 0..1, outputTokens : 0..1]

\* A few of them: a remote error, text without JSON, and parsed answers that
\* report no usage, one token and two tokens.
FewReplies ==
    {r \in Replies :
        \/ r.kind = "ClientError"
        \/ r.kind = "ok" /\ r.text = <<"x">> /\ r.has_usage /\ r.inputTokens = 1
              /\ r.outputTokens = 1
        \/ r.kind = "ok" /\ r.text = <<"{", "}">> /\ r.inputTokens = 1
              /\ (r.has_usage \/ r.outputTokens = 1)}

\* Two of them: a remote error and a parsed answer that reports one token.
TwoReplies ==
    {r \in FewReplies :
        \/ r.kind = "ClientError"
        \/ r.text = <<"{", "}">> /\ r.has_usage /\ r.outputTokens = 0}

NoReply == [kind |-> "none", text |-> <<>>, has_usage |-> FALSE, inputTokens |-> 0,
            outputTokens |-> 0]

\* metrics.total_tokens of _call_bedrock
TotalTokens(reply) ==
    IF reply.has_usage THEN reply.inputTokens + reply.outputTokens ELSE 0

\* _call_bedrock: raised, or the result dict
_call_bedrock(reply) ==
    LET parsed == _parse_response(reply.text)
    IN IF parsed.raised THEN [raised |-> TRUE]
       ELSE [raised |-> FALSE,
             value |-> [action |-> parsed.value.action,
                        emoji |-> parsed.value.emoji,
                        title |-> parsed.value.title,
                        summary |-> parsed.value.summary,
                        reason |-> parsed.value.reason,
                        next_step |-> parsed.value.next_step,
                        tokens_used |-> TotalTokens(reply)]]

analyze_thought(reply) ==
    IF reply.kind # "ok" THEN _fallback_response
    ELSE LET r == _call_bedrock(reply)
         IN IF r.raised THEN _fallback_response ELSE r.value

\* mutant: tokens are recorded whatever their number (>= 0 for > 0)
Record_Always(res) == res.tokens_used >= 0

\* if tokens_used > 0: of analyze()
ShouldRecordTokens(res) == res.tokens_used > 0

(* ---------------- the server ---------------- *)
VARIABLES
    now,        \* the clock, in ticks
    lock,       \* rate_limiter._lock: its holder, or NoWorker
    usage,      \* rate_limiter._usage: client -> UserUsage
    pc,         \* where each worker is in its request
    client_ip,  \* the client of the worker's request
    thought,    \* the "thought" of the worker's request body
    body,       \* the Content-Type and the kind of the worker's request body
    t_now,      \* the local `now` of the rate limiter's method the worker is in
    result,     \* the local result of analyze() once it is there, else <<>>
    sent,       \* the response the last step sent (and to whom), if it sent one
    heard,      \* the backend's answer the last step received, if it received one
    stats,      \* what get_usage_stats returned in the last step, if it was called
    started     \* requests received so far

vars == <<now, lock, usage, pc, client_ip, thought, body, t_now, result, sent, heard,
          stats, started>>

NoClient == "-"
NoResponse == [client |-> NoClient, status |-> 0, error |-> "none", wait |-> 0,
               body |-> <<>>]
NoStats == [client |-> NoClient, value |-> <<>>]
NoBody == [is_json |-> FALSE, kind |-> "none"]

Init ==
    /\ now = 0
    /\ lock = NoWorker
    /\ usage = <<>>
    /\ pc = [w \in Workers |-> "idle"]
    /\ client_ip = [w \in Workers |-> NoClient]
    /\ thought = [w \in Workers |-> <<>>]
    /\ body = [w \in Workers |-> NoBody]
    /\ t_now = [w \in Workers |-> 0]
    /\ result = [w \in Workers |-> <<>>]
    /\ sent = NoResponse
    /\ heard = NoReply
    /\ stats = NoStats
    /\ started = 0

\* The worker sends its response and is free again: its locals are gone.
Return(w, resp) ==
    /\ sent' = resp
    /\ pc' = [pc EXCEPT ![w] = "idle"]
    /\ client_ip' = [client_ip EXCEPT ![w] = NoClient]
    /\ thought' = [thought EXCEPT ![w] = <<>>]
    /\ body' = [body EXCEPT ![w] = NoBody]
    /\ t_now' = [t_now EXCEPT ![w] = 0]
    /\ result' = [result EXCEPT ![w] = <<>>]

\* jsonify({"error": ..., "rate_limited": True}), 429
Error429(c, v) ==
    [client |-> c, status |-> 429, error |-> v.reason, wait |-> v.wait, body |-> <<>>]

\* jsonify({"error": ...}), 400
Error400(c, err) ==
    [client |-> c, status |-> 400, error |-> err, wait |-> 0, body |-> <<>>]

\* An exception leaves the view: an HTTPException is answered with its
\* code, any other exception with 500.
ErrorRaised(c, status, err) ==
    [client |-> c, status |-> status, error |-> err, wait |-> 0, body |-> <<>>]

\* request.json of a body that is not declared JSON: UnsupportedMediaType
\* (Flask from 2.1 on), or None, whose .get raises AttributeError (before).
NotJsonStatus == {415, 500}

\* jsonify(result)
Ok200(c, res) ==
    [client |-> c, status |-> 200, error |-> "none", wait |-> 0, body |-> <<res>>]

\* time passes
Advance(t) ==
    /\ t > now
    /\ now' = t
    /\ sent' = NoResponse
    /\ heard' = NoReply
    /\ stats' = NoStats
    /\ UNCHANGED <<lock, usage, pc, client_ip, thought, body, t_now, result, started>>

\* A request reaches decorated_function, which calls check_request_limit:
\* the client and the clock are read before the lock is taken.
Begin(w, c, b) ==
    /\ pc[w] = "idle"
    /\ started < MaxRequests
    /\ client_ip' = [client_ip EXCEPT ![w] = c]
    /\ thought' = [thought EXCEPT ![w] = b.thought]
    /\ body' = [body EXCEPT ![w] = [is_json |-> b.is_json, kind |-> b.kind]]
    /\ t_now' = [t_now EXCEPT ![w] = now]
    /\ pc' = [pc EXCEPT ![w] = "check_lock"]
    /\ started' = started + 1
    /\ sent' = NoResponse
    /\ heard' = NoReply
    /\ stats' = NoStats
    /\ UNCHANGED <<now, lock, usage, result>>

\* with self._lock: (of check_request_limit, record_request, record_tokens)
Acquire(w) ==
    /\ pc[w] \in {"check_lock", "record_lock", "tokens_lock"}
    /\ lock = NoWorker
    /\ lock' = w
    /\ pc' = [pc EXCEPT ![w] = CASE pc[w] = "check_lock" -> "check_body"
                                 [] pc[w] = "record_lock" -> "record_body"
                                 [] pc[w] = "tokens_lock" -> "tokens_body"]
    /\ sent' = NoResponse
    /\ heard' = NoReply
    /\ stats' = NoStats
    /\ UNCHANGED <<now, usage, client_ip, thought, body, t_now, result, started>>

\* The body of check_request_limit and the release of the lock; a denial
\* is returned as 429.
CheckBody(w) ==
    /\ pc[w] = "check_body"
    /\ lock = w
    /\ LET c == client_ip[w]
           v == check_request_limit(GetOrCreate(usage, c)[c], t_now[w])
       IN /\ usage' = [GetOrCreate(usage, c) EXCEPT ![c] = v.usage]
          /\ IF v.allowed
             THEN /\ pc' = [pc EXCEPT ![w] = "length"]
                  /\ t_now' = [t_now EXCEPT ![w] = 0]
                  /\ sent' = NoResponse
                  /\ UNCHANGED <<client_ip, thought, body, result>>
             ELSE Return(w, Error429(c, v))
    /\ lock' = NoWorker
    /\ heard' = NoReply
    /\ stats' = NoStats
    /\ UNCHANGED <<now, started>>

\* The length check of decorated_function, made only of a body declared
\* JSON: data.get raises when data is not an object, len() when the thought
\* has none, check_input_length answers for the thought of data (for a body
\* that `or {}` replaced: the empty string).  When the check passes or is
\* not made, record_request is called and reads the client and the clock.
LengthCheck(w) ==
    /\ pc[w] = "length"
    /\ IF body[w].is_json /\ ~DataIsObject(body[w].kind)
       THEN Return(w, ErrorRaised(client_ip[w], 500, "AttributeError"))
       ELSE IF body[w].is_json /\ ~HasLen(body[w].kind)
       THEN Return(w, ErrorRaised(client_ip[w], 500, "TypeError"))
       ELSE IF /\ body[w].is_json
               /\ ~check_input_length(CheckedThought(body[w].kind, thought[w]))
       THEN Return(w, Error400(client_ip[w], "too_long"))
       ELSE /\ t_now' = [t_now EXCEPT ![w] = now]
            /\ pc' = [pc EXCEPT ![w] = "record_lock"]
            /\ sent' = NoResponse
            /\ UNCHANGED <<client_ip, thought, body, result>>
    /\ heard' = NoReply
    /\ stats' = NoStats
    /\ UNCHANGED <<now, lock, usage, started>>

\* mutant: the ledgers share one list of timestamps (a mutable default)
RecordBody_SharedList(w) ==
    /\ pc[w] = "record_body"
    /\ lock = w
    /\ LET c == client_ip[w]
           u == GetOrCreate(usage, c)
       IN usage' = [d \in DOMAIN u |->
                       IF d = c THEN record_request(u[d], t_now[w])
                       ELSE [u[d] EXCEPT !.request_timestamps = Append(@, t_now[w])]]
    /\ lock' = NoWorker
    /\ pc' = [pc EXCEPT ![w] = "handler"]
    /\ t_now' = [t_now EXCEPT ![w] = 0]
    /\ sent' = NoResponse
    /\ heard' = NoReply
    /\ stats' = NoStats
    /\ UNCHANGED <<now, client_ip, thought, body, result, started>>

\* mutant: the lock is not released after the request is recorded
RecordBody_KeepsLock(w) ==
    /\ pc[w] = "record_body"
    /\ lock = w
    /\ LET c == client_ip[w]
       IN usage' = [GetOrCreate(usage, c) EXCEPT
                       ![c] = record_request(GetOrCreate(usage, c)[c], t_now[w])]
    /\ lock' = w
    /\ pc' = [pc EXCEPT ![w] = "handler"]
    /\ t_now' = [t_now EXCEPT ![w] = 0]
    /\ sent' = NoResponse
    /\ heard' = NoReply
    /\ stats' = NoStats
    /\ UNCHANGED <<now, client_ip, thought, body, result, started>>

\* The body of record_request and the release of the lock.
RecordBody(w) ==
    /\ pc[w] = "record_body"
    /\ lock = w
    /\ LET c == client_ip[w]
       IN usage' = [GetOrCreate(usage, c) EXCEPT
                       ![c] = record_request(GetOrCreate(usage, c)[c], t_now[w])]
    /\ lock' = NoWorker
    /\ pc' = [pc EXCEPT ![w] = "handler"]
    /\ t_now' = [t_now EXCEPT ![w] = 0]
    /\ sent' = NoResponse
    /\ heard' = NoReply
    /\ stats' = NoStats
    /\ UNCHANGED <<now, client_ip, thought, body, result, started>>

\* mutant: the handler takes the record of a request back when it rejects it
Handler_Refunds(w) ==
    /\ pc[w] = "handler"
    /\ IF ~body[w].is_json \/ body[w].kind # "text" \/ Strip(thought[w]) = <<>>
       THEN /\ Return(w, Error400(client_ip[w], "empty"))
            /\ usage' = [usage EXCEPT ![client_ip[w]] =
                            [@ EXCEPT !.request_timestamps =
                                         SubSeq(@, 1, Len(@) - 1)]]
       ELSE /\ pc' = [pc EXCEPT ![w] = "infer"]
            /\ thought' = [thought EXCEPT ![w] = Strip(thought[w])]
            /\ sent' = NoResponse
            /\ UNCHANGED <<client_ip, body, t_now, result, usage>>
    /\ heard' = NoReply
    /\ stats' = NoStats
    /\ UNCHANGED <<now, lock, started>>

\* analyze(): request.json raises for a body not declared JSON
\* (UnsupportedMediaType) and for one that is not JSON (BadRequest); .get
\* raises when the body is not an object, .strip when the thought is not a
\* string; the thought is stripped; an empty one is a 400, any other is
\* handed to bedrock.analyze_thought, which calls the backend.
Handler(w) ==
    /\ pc[w] = "handler"
    /\ IF ~body[w].is_json
       THEN \E status \in NotJsonStatus :
               Return(w, ErrorRaised(client_ip[w], status,
                                     IF status = 415 THEN "UnsupportedMediaType"
                                                     ELSE "AttributeError"))
       ELSE IF body[w].kind = "malformed"
       THEN Return(w, ErrorRaised(client_ip[w], 400, "BadRequest"))
       ELSE IF body[w].kind # "text"
       THEN Return(w, ErrorRaised(client_ip[w], 500, "AttributeError"))
       ELSE IF Strip(thought[w]) = <<>>
       THEN Return(w, Error400(client_ip[w], "empty"))
       ELSE /\ pc' = [pc EXCEPT ![w] = "infer"]
            /\ thought' = [thought EXCEPT ![w] = Strip(thought[w])]
            /\ sent' = NoResponse
            /\ UNCHANGED <<client_ip, body, t_now, result>>
    /\ heard' = NoReply
    /\ stats' = NoStats
    /\ UNCHANGED <<now, lock, usage, started>>

\* The backend answers (or fails), analyze_thought returns and analyze()
\* goes on: when tokens were used record_tokens is called (it reads the
\* client and the clock), else the result is returned.
Infer(w, reply) ==
    /\ pc[w] = "infer"
    /\ LET res == analyze_thought(reply)
       IN IF ShouldRecordTokens(res)
          THEN /\ result' = [result EXCEPT ![w] = <<res>>]
               /\ t_now' = [t_now EXCEPT ![w] = now]
               /\ pc' = [pc EXCEPT ![w] = "tokens_lock"]
               /\ sent' = NoResponse
               /\ UNCHANGED <<client_ip, thought, body>>
          ELSE Return(w, Ok200(client_ip[w], res))
    /\ heard' = reply
    /\ stats' = NoStats
    /\ UNCHANGED <<now, lock, usage, started>>

\* The body of record_tokens and the release of the lock; analyze() then
\* returns the result.
TokensBody(w) ==
    /\ pc[w] = "tokens_body"
    /\ lock = w
    /\ LET c == client_ip[w]
       IN usage' = [GetOrCreate(usage, c) EXCEPT
                       ![c] = record_tokens(GetOrCreate(usage, c)[c], t_now[w],
                                            result[w][1].tokens_used)]
    /\ lock' = NoWorker
    /\ Return(w, Ok200(client_ip[w], result[w][1]))
    /\ heard' = NoReply
    /\ stats' = NoStats
    /\ UNCHANGED <<now, started>>

\* The sums get_usage_stats returns when it is given no client.
AllClients ==
    [total_clients |-> Cardinality(DOMAIN usage),
     total_requests |-> SumOver(usage, "total_requests"),
     total_tokens |-> SumOver(usage, "total_tokens")]

\* get_usage_stats(client_ip) by a monitoring thread: the lock is taken; for
\* a client_ip that is not empty the clock is read under the lock and the
\* ledger of a known client is pruned; the empty client_ip is answered as no
\* client_ip is, with the sums.
GetUsageStatsClient(c) ==
    /\ lock = NoWorker
    /\ usage' = IF c # "" /\ c \in DOMAIN usage
                THEN [usage EXCEPT ![c] = _cleanup_old_entries(@, now)]
                ELSE usage
    /\ stats' = [client |-> c,
                 value |-> IF c = "" THEN <<AllClients>>
                           ELSE IF c \in DOMAIN usage
                           THEN <<get_usage_stats(usage[c], now)>>
                           ELSE <<>>]
    /\ sent' = NoResponse
    /\ heard' = NoReply
    /\ UNCHANGED <<now, lock, pc, client_ip, thought, body, t_now, result, started>>

\* get_usage_stats() of the /stats route: sums only.
GetUsageStatsAll ==
    /\ lock = NoWorker
    /\ stats' = [client |-> NoClient, value |-> <<AllClients>>]
    /\ sent' = NoResponse
    /\ heard' = NoReply
    /\ UNCHANGED <<now, lock, usage, pc, client_ip, thought, body, t_now, result, started>>

\* The server with requests of the clients C carrying the bodies B, the
\* clock read at the instants I and the backend answering from R.
NextIn(C, B, I, R) ==
    \/ \E t \in I : Advance(t)
    \/ \E w \in Workers, c \in C, b \in B : Begin(w, c, b)
    \/ \E w \in Workers : Acquire(w)
    \/ \E w \in Workers : CheckBody(w)
    \/ \E w \in Workers : LengthCheck(w)
    \/ \E w \in Workers : RecordBody(w)
    \/ \E w \in Workers : Handler(w)
    \/ \E w \in Workers, reply \in R : Infer(w, reply)
    \/ \E w \in Workers : TokensBody(w)
    \/ \E c \in C : GetUsageStatsClient(c)
    \/ GetUsageStatsAll

\* One client, the clock around the minute window.
Next == NextIn({"a"}, JsonBodies(Thoughts), MinuteInstants, FewReplies)
Spec == Init /\ [][Next]_vars

\* One client, the clock around the hour window.
NextHour == NextIn({"a"}, JsonBodies(Thoughts), HourInstants, FewReplies)
SpecHour == Init /\ [][NextHour]_vars

\* Two clients.
NextClients == NextIn(Clients, JsonBodies(Thoughts), CoarseInstants, TwoReplies)
SpecClients == Init /\ [][NextClients]_vars

\* Every kind of body.
NextBodies == NextIn({"a"}, Bodies, CoarseInstants, TwoReplies)
SpecBodies == Init /\ [][NextBodies]_vars

\* Every answer of the backend.
NextBackend == NextIn({"a"}, JsonBodies({Xs(max_input_length)}), CoarseInstants, Replies)
SpecBackend == Init /\ [][NextBackend]_vars

\* The server after it has served one request of client "a" at the instant
\* 0 (checked, recorded, answered): the starting point for runs of a client
\* that comes back.
InitRecorded ==
    /\ now = 0
    /\ lock = NoWorker
    /\ usage = ("a" :> record_request(UserUsage, 0))
    /\ pc = [w \in Workers |-> "idle"]
    /\ client_ip = [w \in Workers |-> NoClient]
    /\ thought = [w \in Workers |-> <<>>]
    /\ body = [w \in Workers |-> NoBody]
    /\ t_now = [w \in Workers |-> 0]
    /\ result = [w \in Workers |-> <<>>]
    /\ sent = NoResponse
    /\ heard = NoReply
    /\ stats = NoStats
    /\ started = 0

\* One client that has been served before, the clock just short of and
\* just past the minute.
NextRetry == NextIn({"a"}, JsonBodies({Xs(max_input_length)}), RetryInstants, FewReplies)
SpecRetry == InitRecorded /\ [][NextRetry]_vars

(* ---------------- what the claims speak of ---------------- *)
\* The ledger of client c as a method finds it (a missing one is created).
Ledger(c) == GetOrCreate(usage, c)[c]

\* The worker w completes the body of check_request_limit in this step.
ChecksNow(w) == pc[w] = "check_body" /\ pc'[w] # "check_body"

\* How many of the ledger's request timestamps lie within 60 s before t.
RecentRequests(led, t) ==
    Cardinality({i \in 1..Len(led.request_timestamps) :
                    led.request_timestamps[i] > t - MinuteWindow * Res})

RECURSIVE TokensSince(_, _, _)
\* The tokens of the first n charges that lie within 3600 s before t.
TokensSince(charges, n, t) ==
    IF n = 0 THEN 0
    ELSE TokensSince(charges, n - 1, t)
         + (IF charges[n][1] > t - HourWindow * Res THEN charges[n][2] ELSE 0)

RecentTokens(led, t) == TokensSince(led.token_usage, Len(led.token_usage), t)

RateDenied(resp) == resp.status = 429 /\ resp.error = "rate"
TokenDenied(resp) == resp.status = 429 /\ resp.error = "token"

\* C1: under any interleaving of a client's requests no 60-second window
\* (taken from any of the ledger's timestamps on) holds more than
\* requests_per_minute of the ledger's timestamps.
C1_NoOverAdmission ==
    \A c \in DOMAIN usage :
       LET ts == usage[c].request_timestamps
       IN \A i \in 1..Len(ts) :
             Cardinality({j \in 1..Len(ts) :
                             ts[i] <= ts[j] /\ ts[j] < ts[i] + MinuteWindow * Res})
                <= requests_per_minute

\* C2: with the token budget not exhausted, a check that finds fewer than
\* requests_per_minute timestamps of the last 60 s allows, and one that
\* finds requests_per_minute of them denies by the rate rule with a
\* positive wait time.
C2_RateRule ==
    [][\A w \in Workers :
          ChecksNow(w) /\ RecentTokens(Ledger(client_ip[w]), t_now[w]) < tokens_per_hour
          => LET n == RecentRequests(Ledger(client_ip[w]), t_now[w])
             IN /\ n < requests_per_minute => pc'[w] = "length" /\ sent'.status = 0
                /\ n >= requests_per_minute
                      => /\ pc'[w] = "idle"
                         /\ RateDenied(sent')
                         /\ sent'.client = client_ip[w]
                         /\ sent'.wait > 0]_vars

\* A client at its limit has just been denied, with a positive wait time.
C2_Witness ==
    /\ RateDenied(sent)
    /\ sent.wait > 0
    /\ Len(usage[sent.client].request_timestamps) = requests_per_minute
    /\ SumTokens(usage[sent.client].token_usage) < tokens_per_hour

\* C3: timestamps older than 60 s never count: a check is denied by the
\* rate rule only when requests_per_minute of the timestamps are younger,
\* however many older ones the ledger still holds.
C3_ExpiredNeverCount ==
    [][\A w \in Workers :
          ChecksNow(w) /\ RateDenied(sent')
          => RecentRequests(Ledger(client_ip[w]), t_now[w]) >= requests_per_minute]_vars

\* One request, then 61 s later requests_per_minute more, all recorded.
C3_Witness ==
    \E c \in DOMAIN usage :
       /\ usage[c].total_requests = requests_per_minute + 1
       /\ Len(usage[c].request_timestamps) = requests_per_minute
       /\ \A i \in 1..Len(usage[c].request_timestamps) :
             usage[c].request_timestamps[i] >= (MinuteWindow + 1) * Res

\* C4: a check denies by the token rule exactly when the rate rule does not
\* trip and the charges of the last 3600 s sum to tokens_per_hour or more;
\* older charges are not in the sum.
C4_TokenRule ==
    [][\A w \in Workers :
          ChecksNow(w)
          => (TokenDenied(sent')
              <=> /\ RecentRequests(Ledger(client_ip[w]), t_now[w]) < requests_per_minute
                  /\ RecentTokens(Ledger(client_ip[w]), t_now[w]) >= tokens_per_hour)]_vars

\* A check has just allowed a client whose charges had exhausted the budget
\* and are now older than 3600 s.
C4_Witness ==
    \E w \in Workers :
       /\ pc[w] = "length"
       /\ now >= HourWindow * Res
       /\ usage[client_ip[w]].total_tokens >= tokens_per_hour
       /\ usage[client_ip[w]].token_usage = <<>>

\* C9: a client over both limits is denied by the rate rule, with a wait
\* time, never by the token rule.
C9_RateBeforeToken ==
    [][\A w \in Workers :
          /\ ChecksNow(w)
          /\ RecentRequests(Ledger(client_ip[w]), t_now[w]) >= requests_per_minute
          /\ RecentTokens(Ledger(client_ip[w]), t_now[w]) >= tokens_per_hour
          => RateDenied(sent') /\ sent'.wait > 0]_vars

\* A client over both limits has just been denied.
C9_Witness ==
    /\ RateDenied(sent)
    /\ sent.wait > 0
    /\ Len(usage[sent.client].request_timestamps) >= requests_per_minute
    /\ SumTokens(usage[sent.client].token_usage) >= tokens_per_hour

\* The worker w gets the backend's answer in this step.
InfersNow(w) == pc[w] = "infer" /\ pc'[w] # "infer"

ResultKeys == {"action", "emoji", "title", "summary", "reason", "next_step",
               "tokens_used"}

\* The generated text holds no object: no "{", no "}" after the first "{",
\* or what lies between the first "{" and the last "}" is no JSON.
Unparsable(text) ==
    LET opens == {i \in 1..Len(text) : text[i] = "{"}
        closes == {i \in 1..Len(text) : text[i] = "}"}
    IN \/ opens = {}
       \/ closes = {}
       \/ \E i \in opens :
             /\ \A j \in opens : i <= j
             /\ \E k \in closes :
                   /\ \A j \in closes : j <= k
                   /\ \/ k < i
                      \/ \E m \in (i + 1)..(k - 1) : text[m] \notin Members

\* The "action" of the object is no text.
ActionNotText(text) == \E i \in 1..Len(text) : text[i] = "action:7"

BackendFailed(reply) ==
    \/ reply.kind \in {"ClientError", "Exception"}
    \/ reply.kind = "ok" /\ (Unparsable(reply.text) \/ ActionNotText(reply.text))

\* C5: the only error responses are 429 and 400, whatever the body of the
\* request; a request that reached the backend ends with a result of the
\* seven keys, and when the backend failed or its text could not be parsed
\* the result is the fallback: let_it_go with tokens_used = 0, returned
\* with 200.
C5_FallbackShape ==
    [][/\ sent'.status \in {0, 200, 400, 429}
       /\ sent'.status = 429 => sent'.error \in {"rate", "token"}
       /\ sent'.status = 400 => sent'.error \in {"too_long", "empty", "BadRequest"}
       /\ \A w \in Workers :
             InfersNow(w)
             => /\ sent'.status = 200 => DOMAIN sent'.body[1] = ResultKeys
                /\ sent'.status # 200
                      => pc'[w] = "tokens_lock" /\ DOMAIN result'[w][1] = ResultKeys
                /\ BackendFailed(heard')
                      => /\ sent'.status = 200
                         /\ sent'.body[1].action = "let_it_go"
                         /\ sent'.body[1].tokens_used = 0]_vars

\* The result analyze() holds after the step that got the backend's answer.
ResultAfter(w) == IF sent'.status = 200 THEN sent'.body[1] ELSE result'[w][1]

\* C6: a request whose result has tokens_used = 0 is answered without
\* record_tokens: the step leaves every ledger as it was, and no charge of
\* 0 tokens is ever in a ledger.
C6_NoChargeForFallback ==
    [][/\ \A w \in Workers :
             InfersNow(w) /\ ResultAfter(w).tokens_used = 0
             => /\ pc'[w] = "idle"
                /\ sent'.status = 200
                /\ usage' = usage
       /\ \A c \in DOMAIN usage' :
             \A i \in 1..Len(usage'[c].token_usage) : usage'[c].token_usage[i][2] > 0]_vars

\* A client that had spent tokens got the fallback after a remote error.
C6_Witness ==
    /\ heard.kind = "ClientError"
    /\ sent.status = 200
    /\ sent.body[1].tokens_used = 0
    /\ usage[sent.client].total_tokens > 0

\* The worker w completes the length check in this step.
ChecksLengthNow(w) == pc[w] = "length" /\ pc'[w] # "length"

\* The step of worker w is one in which check_input_length is called: the
\* body is declared JSON, data is an object and its thought has a length.
ChecksTextNow(w) ==
    /\ ChecksLengthNow(w)
    /\ body[w].is_json /\ DataIsObject(body[w].kind) /\ HasLen(body[w].kind)

\* The thought that check_input_length is called with in that step.
TextChecked(w) == CheckedThought(body[w].kind, thought[w])

\* C7: check_input_length accepts exactly the texts of at most
\* max_input_length characters, whatever the ledgers hold, and leaves the
\* ledgers as they are.
C7_LengthOnly ==
    [][\A w \in Workers :
          ChecksTextNow(w)
          => /\ usage' = usage
             /\ Len(TextChecked(w)) <= max_input_length
                   <=> pc'[w] = "record_lock" /\ sent'.status = 0
             /\ Len(TextChecked(w)) >= max_input_length + 1
                   <=> sent'.status = 400 /\ sent'.error = "too_long"]_vars

\* A text of exactly max_input_length characters has passed the check while
\* another client's ledger was in use.
C7_Witness ==
    \E w \in Workers :
       /\ pc[w] = "record_lock"
       /\ body[w].is_json /\ body[w].kind = "text"
       /\ Len(thought[w]) = max_input_length
       /\ \E c \in DOMAIN usage : c # client_ip[w] /\ usage[c].total_requests > 0

\* C8: total_requests and total_tokens of a client never decrease, and a
\* ledger once there stays.
C8_TotalsMonotone ==
    [][\A c \in DOMAIN usage :
          /\ c \in DOMAIN usage'
          /\ usage'[c].total_requests >= usage[c].total_requests
          /\ usage'[c].total_tokens >= usage[c].total_tokens]_vars

\* Pruning has emptied both series of a client and its totals are kept.
C8_Witness ==
    \E c \in DOMAIN usage :
       /\ usage[c].request_timestamps = <<>>
       /\ usage[c].token_usage = <<>>
       /\ usage[c].total_requests > 0
       /\ usage[c].total_tokens > 0

\* The steps of a request in their order, but for what lets a request pass
\* from the length check to record_request: a worker reaches each step only
\* from the one before, the admission check lets only a request pass that
\* is not denied, the step into the handler records the request once and
\* nothing else changes total_requests; a denied request is answered 429,
\* over-length or not, and recorded nowhere.
StepsInOrder ==
    /\ \A w \in Workers :
          LET c == client_ip[w]
              denied == \/ RecentRequests(Ledger(c), t_now[w]) >= requests_per_minute
                        \/ RecentTokens(Ledger(c), t_now[w]) >= tokens_per_hour
          IN /\ pc'[w] # pc[w] /\ pc'[w] = "length" => pc[w] = "check_body" /\ ~denied
             /\ pc'[w] # pc[w] /\ pc'[w] = "record_lock" => pc[w] = "length"
             /\ pc'[w] # pc[w] /\ pc'[w] = "record_body" => pc[w] = "record_lock"
             /\ pc'[w] # pc[w] /\ pc'[w] = "handler"
                   => /\ pc[w] = "record_body"
                      /\ usage'[c].total_requests = Ledger(c).total_requests + 1
                      /\ Len(usage'[c].request_timestamps)
                            = Len(Ledger(c).request_timestamps) + 1
             /\ pc'[w] # pc[w] /\ pc'[w] = "infer" => pc[w] = "handler"
             /\ ChecksNow(w) /\ denied
                   => /\ sent'.status = 429
                      /\ pc'[w] = "idle"
                      /\ usage'[c].total_requests = Ledger(c).total_requests
                      /\ Len(usage'[c].request_timestamps)
                            <= Len(Ledger(c).request_timestamps)
    /\ \A c \in DOMAIN usage' :
          usage'[c].total_requests # Ledger(c).total_requests
          => \E w \in Workers :
                pc[w] = "record_body" /\ pc'[w] = "handler" /\ client_ip[w] = c

\* C10 as stated: admission check, length check, record, handler, in this
\* order: a worker reaches each step only from the one before and only
\* when that one passed (record_request only with a text that is not
\* over-length); the step into the handler records the request once, and
\* nothing else changes total_requests; a denied request is answered 429,
\* over-length or not, and recorded nowhere.
C10_Order ==
    [][/\ \A w \in Workers :
          LET c == client_ip[w]
              denied == \/ RecentRequests(Ledger(c), t_now[w]) >= requests_per_minute
                        \/ RecentTokens(Ledger(c), t_now[w]) >= tokens_per_hour
          IN /\ pc'[w] # pc[w] /\ pc'[w] = "length" => pc[w] = "check_body" /\ ~denied
             /\ pc'[w] # pc[w] /\ pc'[w] = "record_lock"
                   => pc[w] = "length" /\ Len(thought[w]) <= max_input_length
             /\ pc'[w] # pc[w] /\ pc'[w] = "record_body" => pc[w] = "record_lock"
             /\ pc'[w] # pc[w] /\ pc'[w] = "handler"
                   => /\ pc[w] = "record_body"
                      /\ usage'[c].total_requests = Ledger(c).total_requests + 1
                      /\ Len(usage'[c].request_timestamps)
                            = Len(Ledger(c).request_timestamps) + 1
             /\ pc'[w] # pc[w] /\ pc'[w] = "infer" => pc[w] = "handler"
             /\ ChecksNow(w) /\ denied
                   => /\ sent'.status = 429
                      /\ pc'[w] = "idle"
                      /\ usage'[c].total_requests = Ledger(c).total_requests
                      /\ Len(usage'[c].request_timestamps)
                            <= Len(Ledger(c).request_timestamps)
       /\ \A c \in DOMAIN usage' :
             usage'[c].total_requests # Ledger(c).total_requests
             => \E w \in Workers :
                   pc[w] = "record_body" /\ pc'[w] = "handler" /\ client_ip[w] = c]_vars

\* C10 amended: the steps are in this order, and the length check is made
\* only of a body declared JSON: a request goes on to record_request (and
\* so to the handler) only when its body is not declared JSON or
\* check_input_length was called with its thought and found it not
\* over-length, and to the backend only when its body is declared JSON and
\* is an object with a string for its thought that is not over-length.
C10_OrderJsonChecked ==
    [][/\ StepsInOrder
       /\ \A w \in Workers :
             /\ pc'[w] # pc[w] /\ pc'[w] = "record_lock" /\ body[w].is_json
                   => /\ ChecksTextNow(w)
                      /\ Len(TextChecked(w)) <= max_input_length
             /\ pc'[w] # pc[w] /\ pc'[w] = "infer"
                   => /\ body[w].is_json /\ body[w].kind = "text"
                      /\ Len(thought[w]) <= max_input_length]_vars

\* An over-length request whose body is not declared JSON is in the
\* handler, recorded, while another request is with the backend.
C10_Witness ==
    \E w, v \in Workers :
       /\ pc[w] = "handler"
       /\ ~body[w].is_json
       /\ Len(thought[w]) > max_input_length
       /\ usage[client_ip[w]].total_requests >= 1
       /\ Len(usage[client_ip[w]].request_timestamps) >= 1
       /\ pc[v] = "infer"

\* C11 as stated: an over-length request that passed the admission check is
\* recorded all the same: the step that ends its length check appends a
\* timestamp and increments total_requests, or sends it on to
\* record_request.
C11_OverLengthRecorded ==
    [][\A w \in Workers :
          ChecksLengthNow(w) /\ Len(thought[w]) > max_input_length
          => \/ /\ usage'[client_ip[w]].total_requests
                      = Ledger(client_ip[w]).total_requests + 1
                /\ Len(usage'[client_ip[w]].request_timestamps)
                      = Len(Ledger(client_ip[w]).request_timestamps) + 1
             \/ pc'[w] = "record_lock"]_vars

\* C11 amended: a request with a body declared JSON whose thought is
\* over-length (a string or a list in an object) and that passed the
\* admission check consumes no rate budget: it is answered 400 and is
\* over, with every ledger as it was, and no request with a body declared
\* JSON on its way to record_request or past it carries an over-length
\* thought; a request with a body not declared JSON goes on to
\* record_request whatever its length.
C11_OverLengthNotRecorded ==
    [][\A w \in Workers :
          /\ ChecksTextNow(w) /\ Len(TextChecked(w)) > max_input_length
                => /\ sent'.status = 400 /\ sent'.error = "too_long"
                   /\ sent'.client = client_ip[w]
                   /\ pc'[w] = "idle"
                   /\ usage' = usage
          /\ pc'[w] \in {"record_lock", "record_body", "handler", "infer"}
                /\ body'[w].is_json
                => Len(thought'[w]) <= max_input_length
          /\ ChecksLengthNow(w) /\ ~body[w].is_json
                => pc'[w] = "record_lock" /\ usage' = usage]_vars

\* The only request so far was admitted, found over-length and answered
\* 400; its client's ledger is there and holds no request.
C11_Witness ==
    /\ started = 1
    /\ sent.status = 400 /\ sent.error = "too_long"
    /\ sent.client \in DOMAIN usage
    /\ usage[sent.client].total_requests = 0
    /\ usage[sent.client].request_timestamps = <<>>

\* How often the instant v is among the request timestamps of a ledger.
CountTs(led, v) ==
    Cardinality({i \in 1..Len(led.request_timestamps) : led.request_timestamps[i] = v})

\* The request timestamps of all ledgers.
StampsOf(u) ==
    UNION {{u[c].request_timestamps[i] : i \in 1..Len(u[c].request_timestamps)} :
              c \in DOMAIN u}

\* C12: a recorded request stays recorded: the step that rejects an empty
\* thought (400), or in which the handler fails on the body (one not
\* declared JSON, not JSON, not an object, or with a thought that is not a
\* string), and the step that gets a failed or unparsable answer
\* (fallback, 200) leave every ledger as it was, and no step takes away a
\* timestamp that is younger than 60 s or lowers total_requests.
C12_ChargeStays ==
    [][/\ \A w \in Workers :
             /\ pc[w] = "handler" /\ pc'[w] = "idle"
                   => /\ body[w].is_json /\ body[w].kind = "text"
                            => sent'.status = 400 /\ sent'.error = "empty"
                      /\ usage' = usage
             /\ InfersNow(w) /\ BackendFailed(heard')
                   => /\ sent'.status = 200
                      /\ usage' = usage
       /\ \A c \in DOMAIN usage :
             /\ c \in DOMAIN usage'
             /\ usage'[c].total_requests >= usage[c].total_requests
             /\ \A v \in StampsOf(usage) :
                   v > now - MinuteWindow * Res
                   => CountTs(usage'[c], v) >= CountTs(usage[c], v)]_vars

\* The one request so far was recorded, its inference failed and it got the
\* fallback: its timestamp and its increment are in the ledger.
C12_Witness ==
    /\ started = 1
    /\ heard.kind = "ClientError"
    /\ sent.status = 200
    /\ sent.body[1].tokens_used = 0
    /\ usage[sent.client].total_requests = 1
    /\ Len(usage[sent.client].request_timestamps) = 1
    /\ usage[sent.client].request_timestamps[1] > now - MinuteWindow * Res

\* C13: the lock is never held by a request that is with the backend (or
\* anywhere outside the bodies of the rate limiter's methods): whoever holds
\* the lock is in the body of check_request_limit, record_request or
\* record_tokens, which ends without waiting for anything.
C13_LockNotHeldInInference ==
    /\ \A w \in Workers : pc[w] = "infer" => lock # w
    /\ lock # NoWorker => pc[lock] \in {"check_body", "record_body", "tokens_body"}

\* While one client's request is with the backend, another client's request
\* holds the lock in check_request_limit.
C13_Witness ==
    \E w, v \in Workers :
       /\ pc[w] = "infer"
       /\ pc[v] = "check_body"
       /\ lock = v
       /\ client_ip[v] # client_ip[w]

\* The list new is the list old with one entry appended.
IsAppend(old, new) ==
    Len(new) = Len(old) + 1 /\ SubSeq(new, 1, Len(old)) = old

RECURSIVE IsSubSeq(_, _)
\* The list new is the list old with some entries (maybe none) taken away.
IsSubSeq(new, old) ==
    IF new = <<>> THEN TRUE
    ELSE IF old = <<>> THEN FALSE
         ELSE IF Head(new) = Head(old) THEN IsSubSeq(Tail(new), Tail(old))
              ELSE IsSubSeq(new, Tail(old))

\* C14: total_requests counts the appends to request_timestamps: a ledger
\* starts with both at nothing, and every step either appends one timestamp
\* and adds one to total_requests, or appends none and leaves
\* total_requests as it is; so it is under two workers recording for the
\* same client one after the other in any order.
C14_TotalCountsAppends ==
    [][\A c \in DOMAIN usage' :
          LET old == Ledger(c)
              new == usage'[c]
          IN \/ /\ IsAppend(old.request_timestamps, new.request_timestamps)
                /\ new.total_requests = old.total_requests + 1
             \/ /\ IsSubSeq(new.request_timestamps, old.request_timestamps)
                /\ new.total_requests = old.total_requests]_vars

\* Two requests of one client were in record_request at the same time and
\* both are recorded.
C14_Witness ==
    /\ pc[1] = "handler" /\ pc[2] = "handler"
    /\ client_ip[1] = client_ip[2]
    /\ started = 2
    /\ usage[client_ip[1]].total_requests = 2
    /\ Len(usage[client_ip[1]].request_timestamps) = 2

\* At the instant t the ledger holds no request timestamp older than 60 s
\* and no charge older than 3600 s.
NoExpired(led, t) ==
    /\ \A i \in 1..Len(led.request_timestamps) :
          led.request_timestamps[i] >= t - MinuteWindow * Res
    /\ \A i \in 1..Len(led.token_usage) :
          led.token_usage[i][1] >= t - HourWindow * Res

\* The worker w completes the body of a method of the rate limiter.
CompletesBody(w) ==
    pc[w] \in {"check_body", "record_body", "tokens_body"} /\ pc'[w] # pc[w]

\* C15 as stated: when check_request_limit, record_request, record_tokens
\* or get_usage_stats(client) completes, the client's ledger holds no
\* expired entry, measured against the clock at that moment.
C15_PrunedOnEveryAccess ==
    [][/\ \A w \in Workers :
             CompletesBody(w) => NoExpired(usage'[client_ip[w]], now)
       /\ stats'.client \in DOMAIN usage' => NoExpired(usage'[stats'.client], now)]_vars

\* C15 amended: when check_request_limit or get_usage_stats(client), for a
\* client that is not the empty string, completes, the client's ledger
\* holds no expired entry, measured against
\* the instant the operation read from the clock (before it took the lock
\* in check_request_limit, under the lock in get_usage_stats), and the
\* counts get_usage_stats reports are those of the pruned ledger.
C15_PrunedOnCheckAndStats ==
    [][/\ \A w \in Workers :
             ChecksNow(w) => NoExpired(usage'[client_ip[w]], t_now[w])
       /\ stats'.client \in DOMAIN usage' /\ stats'.client # ""
             => /\ NoExpired(usage'[stats'.client], now)
                /\ stats'.value[1].requests_this_minute
                      = Len(usage'[stats'.client].request_timestamps)
                /\ stats'.value[1].tokens_this_hour
                      = SumTokens(usage'[stats'.client].token_usage)]_vars

\* get_usage_stats has just reported a client whose requests and charges
\* have all expired.
C15_Witness ==
    /\ stats.client \in DOMAIN usage
    /\ now >= HourWindow * Res
    /\ stats.value[1].total_requests > 0
    /\ stats.value[1].total_tokens > 0
    /\ stats.value[1].requests_this_minute = 0
    /\ stats.value[1].tokens_this_hour = 0
    /\ usage[stats.client].request_timestamps = <<>>
    /\ usage[stats.client].token_usage = <<>>

\* How often x is in the list.
CountIn(list, x) == Cardinality({i \in 1..Len(list) : list[i] = x})

\* The entries of the list.
Range(list) == {list[i] : i \in 1..Len(list)}

\* C16: check_request_limit, allowing or denying, changes a ledger by
\* pruning only: the totals stay, nothing is appended, the entries that
\* stay keep their order, and every request timestamp younger than 60 s and
\* every charge younger than 3600 s (against the instant the check read)
\* stays.
C16_CheckOnlyPrunes ==
    [][\A w \in Workers :
          ChecksNow(w)
          => LET c == client_ip[w]
                 old == Ledger(c)
                 new == usage'[c]
             IN /\ new.total_requests = old.total_requests
                /\ new.total_tokens = old.total_tokens
                /\ IsSubSeq(new.request_timestamps, old.request_timestamps)
                /\ IsSubSeq(new.token_usage, old.token_usage)
                /\ \A v \in Range(old.request_timestamps) :
                      v > t_now[w] - MinuteWindow * Res
                      => CountIn(new.request_timestamps, v)
                            = CountIn(old.request_timestamps, v)
                /\ \A ch \in Range(old.token_usage) :
                      ch[1] > t_now[w] - HourWindow * Res
                      => CountIn(new.token_usage, ch) = CountIn(old.token_usage, ch)]_vars

\* A check has just denied by the token rule: the request timestamp of an
\* hour ago is pruned, the charge half a second younger than an hour is kept.
C16_Witness ==
    /\ TokenDenied(sent)
    /\ now = HourWindow * Res
    /\ usage[sent.client].total_requests > 0
    /\ usage[sent.client].request_timestamps = <<>>
    /\ usage[sent.client].token_usage # <<>>
    /\ \A i \in 1..Len(usage[sent.client].token_usage) :
          usage[sent.client].token_usage[i][1] = 1

\* The smallest request timestamp of the ledger that is younger than 60 s at t.
OldestRecent(led, t) ==
    CHOOSE v \in Range(led.request_timestamps) :
       /\ v > t - MinuteWindow * Res
       /\ \A u \in Range(led.request_timestamps) :
             u > t - MinuteWindow * Res => v <= u

\* What is left of the oldest recent request's minute at t, in ticks:
\* 60 - (now - oldestTimestamp).
Remaining(led, t) == MinuteWindow * Res - (t - OldestRecent(led, t))

\* C17 as stated: on a rate denial with now - oldestTimestamp in [0, 60) the
\* wait time is ceil(60 - (now - oldestTimestamp)) + 1, that is, the whole
\* number W with W - 2 < 60 - (now - oldestTimestamp) <= W - 1.
C17_WaitIsCeilPlusOne ==
    [][\A w \in Workers :
          ChecksNow(w) /\ RateDenied(sent')
          => LET rem == Remaining(Ledger(client_ip[w]), t_now[w])
             IN rem > 0 /\ rem <= MinuteWindow * Res
                => /\ (sent'.wait - 2) * Res < rem
                   /\ rem <= (sent'.wait - 1) * Res]_vars

\* C17 amended: the wait time is floor(60 - (now - oldestTimestamp)) + 1,
\* the whole number W with W - 1 <= 60 - (now - oldestTimestamp) < W: what
\* the statement gives when the remaining time is a whole number of
\* seconds, and one second less when it is not.
C17_WaitIsFloorPlusOne ==
    [][\A w \in Workers :
          ChecksNow(w) /\ RateDenied(sent')
          => LET rem == Remaining(Ledger(client_ip[w]), t_now[w])
             IN rem > 0 /\ rem <= MinuteWindow * Res
                => /\ (sent'.wait - 1) * Res <= rem
                   /\ rem < sent'.wait * Res]_vars

\* A client whose oldest request is one tick (less than a second) old has
\* just been denied: 59 and a fraction seconds remain and the wait is 60.
C17_Witness ==
    /\ RateDenied(sent)
    /\ now = 1
    /\ sent.wait = MinuteWindow
    /\ \E i \in 1..Len(usage[sent.client].request_timestamps) :
          usage[sent.client].request_timestamps[i] = 0

\* The instants of the list of charges.
ChargeStamps(charges) == [i \in 1..Len(charges) |-> charges[i][1]]

\* The instants of the list are in non-decreasing order.
Sorted(list) == \A i, j \in 1..Len(list) : i < j => list[i] <= list[j]

\* The worker w is in record_request (record_tokens), has read the clock,
\* has not appended yet, and the client's list already holds a later instant.
StaleRecord(w) ==
    /\ pc[w] \in {"record_lock", "record_body"}
    /\ \E v \in Range(Ledger(client_ip[w]).request_timestamps) : t_now[w] < v

StaleTokens(w) ==
    /\ pc[w] \in {"tokens_lock", "tokens_body"}
    /\ \E v \in Range(ChargeStamps(Ledger(client_ip[w]).token_usage)) : t_now[w] < v

\* The worker w appends to request_timestamps (token_usage) in this step.
AppendsRequest(w) == pc[w] = "record_body" /\ pc'[w] # "record_body"
AppendsTokens(w) == pc[w] = "tokens_body" /\ pc'[w] # "tokens_body"

\* C18 as stated: in every reachable state the request timestamps and the
\* instants of the charges of every client are in non-decreasing order.
C18_Ordered ==
    \A c \in DOMAIN usage :
       /\ Sorted(usage[c].request_timestamps)
       /\ Sorted(ChargeStamps(usage[c].token_usage))

\* C18 amended: the lists are in the order of appending, and the instants
\* are in non-decreasing order unless two record calls of the client
\* overlap: the order is broken only by the append of a call that read the
\* clock before a later instant came into the list, and a call gets into
\* that position only when another call of the same client appends between
\* its reading of the clock and its own append.
C18_OrderedUnlessOverlap ==
    [][/\ \A c \in DOMAIN usage' :
             /\ Sorted(Ledger(c).request_timestamps)
                   /\ ~Sorted(usage'[c].request_timestamps)
                   => \E w \in Workers :
                         AppendsRequest(w) /\ client_ip[w] = c /\ StaleRecord(w)
             /\ Sorted(ChargeStamps(Ledger(c).token_usage))
                   /\ ~Sorted(ChargeStamps(usage'[c].token_usage))
                   => \E w \in Workers :
                         AppendsTokens(w) /\ client_ip[w] = c /\ StaleTokens(w)
       /\ \A w \in Workers :
             /\ ~StaleRecord(w) /\ StaleRecord(w)'
                   => /\ pc[w] \in {"record_lock", "record_body"}
                      /\ \E v \in Workers \ {w} :
                            AppendsRequest(v) /\ client_ip[v] = client_ip[w]
             /\ ~StaleTokens(w) /\ StaleTokens(w)'
                   => /\ pc[w] \in {"tokens_lock", "tokens_body"}
                      /\ \E v \in Workers \ {w} :
                            AppendsTokens(v) /\ client_ip[v] = client_ip[w]]_vars

\* Two record_request calls of a client overlapped and the later append
\* carries the earlier instant.
C18_Witness ==
    \E c \in DOMAIN usage :
       /\ Len(usage[c].request_timestamps) = 2
       /\ usage[c].request_timestamps[2] < usage[c].request_timestamps[1]

\* C19: the retry hint is sufficient: when a check denies by the rate rule
\* with the wait time W, a check_request_limit of the same client made W
\* seconds or more after it, on the ledger as the denial left it (nothing
\* further recorded), is not denied by the rate rule.
C19_RetryHintSufficient ==
    [][\A w \in Workers :
          ChecksNow(w) /\ RateDenied(sent')
          => \A t \in RetryInstants :
                t >= t_now[w] + sent'.wait * Res
                => check_request_limit(usage'[client_ip[w]], t).reason # "rate"]_vars

\* Every ledger but that of client c is after the step as it was before,
\* and no ledger but that of c has come into being.
OthersUntouched(c) ==
    /\ DOMAIN usage' \subseteq DOMAIN usage \cup {c}
    /\ \A d \in DOMAIN usage \ {c} : d \in DOMAIN usage' /\ usage'[d] = usage[d]

\* C20: clients are isolated: check_request_limit, record_request and
\* record_tokens of a request of client c and get_usage_stats(c) leave the
\* ledger of every other client as it is, no step changes the ledgers of
\* two clients, and whether a check allows depends on the ledger of its
\* own client alone.
C20_ClientsIsolated ==
    [][/\ \A w \in Workers : CompletesBody(w) => OthersUntouched(client_ip[w])
       /\ stats'.client # NoClient => OthersUntouched(stats'.client)
       /\ \A c, d \in DOMAIN usage :
             usage'[c] # usage[c] /\ usage'[d] # usage[d] => c = d
       /\ \A w \in Workers :
             ChecksNow(w)
             => (pc'[w] = "length"
                 <=> /\ RecentRequests(Ledger(client_ip[w]), t_now[w])
                           < requests_per_minute
                     /\ RecentTokens(Ledger(client_ip[w]), t_now[w])
                           < tokens_per_hour)]_vars

\* A client with no request recorded has just been allowed while another
\* client is at its rate limit.
C20_Witness ==
    \E w \in Workers :
       /\ pc[w] = "length"
       /\ usage[client_ip[w]].request_timestamps = <<>>
       /\ usage[client_ip[w]].total_requests = 0
       /\ \E d \in DOMAIN usage :
             /\ d # client_ip[w]
             /\ Len(usage[d].request_timestamps) = requests_per_minute
             /\ \A i \in 1..Len(usage[d].request_timestamps) :
                   usage[d].request_timestamps[i] > now - MinuteWindow * Res

====
